---- MODULE Spec2Model ----
(***************************************************************************)
(* Model of Python/options_simulator.py: the Black-Scholes pricing class   *)
(* BlackScholesModel and OptionsTradingSimulator.run_simulation (the EMA   *)
(* columns, the crossover signal, the scalar call/put price and the strike *)
(* sweep).                                                                 *)
(*                                                                         *)
(* Number representation.  Python floats are modelled by exact integers    *)
(* and rationals on fixed grids:                                           *)
(*   prices (S, K, closes, strikes)  ticks; closes are whole multiples of  *)
(*                                   TicksPerClose ticks, so that          *)
(*                                   close * (1 + i/10) is a whole tick    *)
(*   T                               days (T = 30 is 30/365 years)         *)
(*   r                               percent (r = 1 is 0.01)               *)
(*   sigma                           tenths (sigma = 2 is 0.2)             *)
(*   d1, d2, N(x), exp(x), ln(x)     thousandths (scale Q)                 *)
(*   call/put prices                 ticks / Q^2                           *)
(*   EMA values                      reduced fractions <<num, den>> ticks  *)
(* Floating-point rounding, overflow and NaN are outside the model.        *)
(***************************************************************************)
EXTENDS Integers, Sequences, FiniteSets, TLC

\* ---------------------------------------------------------------- bounds
MaxLen == 3        \* longest downloaded close series
MaxClose == 2      \* closes are TicksPerClose * (1..MaxClose) ticks
MaxStrike == 3     \* positive strike inputs are 5 * (1..MaxStrike) ticks
MaxSpot == 2       \* constructor S, K are TicksPerClose * (-1..MaxSpot)
MaxCalls == 3      \* method calls a client makes on one instance

\* --------------------------------------------------- program constants
SHORT_SPAN == 9      \* ewm(span=9)
LONG_SPAN == 200     \* ewm(span=200)
T_DAYS == 30         \* T=30 / 365
DAYS_PER_YEAR == 365
R_PERCENT == 1       \* r=0.01
SIGMA_TENTHS == 2    \* sigma=0.2

Q == 10 * 10 * 10
TicksPerClose == 2 * 5
\* Python's None and a set value: the empty and the one-element tuple.
None == <<>>
Some(v) == <<v>>
Val(o) == o[1]

\* ------------------------------------------------------ exact arithmetic
Abs(x) == IF x < 0 THEN 0 - x ELSE x

\* Floor division by a divisor of either sign.
Div(a, b) == IF b < 0 THEN (0 - a) \div (0 - b) ELSE a \div b

RECURSIVE GCD(_, _)
GCD(a, b) == IF b = 0 THEN a ELSE GCD(b, a % b)

\* The fraction n/d (d # 0) in lowest terms with a positive denominator.
Rat(n, d) ==
    LET g == GCD(Abs(n), Abs(d))
        s == IF d < 0 THEN 0 - 1 ELSE 1
    IN  <<s * (n \div g), Abs(d) \div g>>

RInt(n) == <<n, 1>>

RMul(p, q) ==
    LET g1 == GCD(Abs(p[1]), q[2])
        g2 == GCD(Abs(q[1]), p[2])
    IN  Rat((p[1] \div g1) * (q[1] \div g2), (p[2] \div g2) * (q[2] \div g1))

RAdd(p, q) ==
    LET g == GCD(p[2], q[2])
    IN  Rat(p[1] * (q[2] \div g) + q[1] * (p[2] \div g), p[2] * (q[2] \div g))

RSub(p, q) == RAdd(p, <<0 - q[1], q[2]>>)

RGreater(p, q) == RSub(p, q)[1] > 0

RECURSIVE Pow(_, _)
Pow(b, e) == IF e = 0 THEN 1 ELSE b * Pow(b, e - 1)

RECURSIVE SqrtSearch(_, _, _)
SqrtSearch(v, lo, hi) ==
    IF lo >= hi THEN lo
    ELSE LET mid == (lo + hi + 1) \div 2
         IN  IF mid * mid <= v THEN SqrtSearch(v, mid, hi)
             ELSE SqrtSearch(v, lo, mid - 1)

\* math.sqrt(n/d) in thousandths, n >= 0, d > 0.
Sqrt(n, d) == SqrtSearch((n * Q * Q) \div d, 0, 40 * Q)

\* math.log(n/d) in thousandths, n/d > 0: 2*atanh((n-d)/(n+d)) by its series.
Ln(n, d) ==
    LET z  == Div((n - d) * Q, n + d)
        z2 == (z * z) \div Q
        z3 == Div(z * z2, Q)
        z5 == Div(z3 * z2, Q)
        z7 == Div(z5 * z2, Q)
    IN  2 * (z + Div(z3, 3) + Div(z5, 5) + Div(z7, 7))

\* math.exp(x), x and the result in thousandths.
Exp(x) == Q + x + Div(x * x, 2 * Q) + Div(Div(x * x, Q) * x, 6 * Q)

\* Upper tail of the standard normal at 0, 0.25, 0.5, ... in thousandths.
TailTable == <<500, 401, 309, 227, 159, 106, 67, 40, 23, 12, 6, 3, 1, 1, 0>>

UpperTail(z) ==
    LET i == z \div 250
        f == z % 250
    IN  IF i + 2 > Len(TailTable) THEN 0
        ELSE TailTable[i + 1] - ((TailTable[i + 1] - TailTable[i + 2]) * f) \div 250

\* scipy.stats.norm.cdf(x) in thousandths: the tail for x < 0, its complement otherwise.
Cdf(x) == IF x >= 0 THEN Q - UpperTail(x) ELSE UpperTail(0 - x)

\* ------------------------------------------------- class BlackScholesModel
\* The outcome of a method call: the instance after the call, the exception
\* raised ("none" when the call returns) and the value returned.
Return(self, v) == [self |-> self, exc |-> "none", ret |-> Some(v)]
Raise(self, e) == [self |-> self, exc |-> e, ret |-> None]

BlackScholesModel(S, K, T, r, sigma) ==
    [S |-> S, K |-> K, T |-> T, r |-> r, sigma |-> sigma]

\* sigma * math.sqrt(T), in ten-thousandths
SigmaSqrtT(self) == self.sigma * Sqrt(self.T, DAYS_PER_YEAR)

d1(self) ==
    IF self.K = 0 THEN Raise(self, "ZeroDivisionError")
    ELSE IF self.S = 0 \/ ((self.S < 0) # (self.K < 0)) THEN Raise(self, "ValueError")
    ELSE IF self.T < 0 THEN Raise(self, "ValueError")
    ELSE IF SigmaSqrtT(self) = 0 THEN Raise(self, "ZeroDivisionError")
    ELSE Return(self,
           Div((Ln(Abs(self.S), Abs(self.K))
                  + Div((2 * self.r + self.sigma * self.sigma) * self.T * Q,
                        2 * 100 * DAYS_PER_YEAR)) * Q * 10,
               SigmaSqrtT(self)))

\* d2 with the volatility term cached on the instance
d2_caching(self) ==
    LET a == d1(self)
    IN  IF a.exc # "none" THEN a
        ELSE Return([a.self EXCEPT !.sigma = Div(SigmaSqrtT(a.self), 10)],
                    Val(a.ret) - Div(SigmaSqrtT(a.self), 10))

d2(self) ==
    LET a == d1(self)
    IN  IF a.exc # "none" THEN a
        ELSE Return(a.self, Val(a.ret) - Div(SigmaSqrtT(a.self), 10))

\* exp(-r * T) in thousandths
Discount(self) == Exp(Div(0 - self.r * self.T * Q, 100 * DAYS_PER_YEAR))

call_price(self) ==
    LET a == d1(self)
    IN  IF a.exc # "none" THEN a
        ELSE LET b == d2(a.self)
             IN  IF b.exc # "none" THEN b
                 ELSE Return(b.self,
                        b.self.S * Cdf(Val(a.ret)) * Q
                          - b.self.K * Discount(b.self) * Cdf(Val(b.ret)))

\* put_price with N(d2) where N(-d2) belongs
put_price_cdf_d2(self) ==
    LET a == d1(self)
    IN  IF a.exc # "none" THEN a
        ELSE LET b == d2(a.self)
             IN  IF b.exc # "none" THEN b
                 ELSE Return(b.self,
                        b.self.K * Discount(b.self) * Cdf(Val(b.ret))
                          - b.self.S * Cdf(0 - Val(a.ret)) * Q)

put_price(self) ==
    LET a == d1(self)
    IN  IF a.exc # "none" THEN a
        ELSE LET b == d2(a.self)
             IN  IF b.exc # "none" THEN b
                 ELSE Return(b.self,
                        b.self.K * Discount(b.self) * Cdf(0 - Val(b.ret))
                          - b.self.S * Cdf(0 - Val(a.ret)) * Q)

Methods == {"d1", "d2", "call_price", "put_price"}

Invoke(m, self) ==
    CASE m = "d1" -> d1(self)
      [] m = "d2" -> d2(self)
      [] m = "call_price" -> call_price(self)
      [] m = "put_price" -> put_price(self)

VARIABLES pc, exc, locals, plot_args, obj, ctor_args, first, last, ncalls

vars == <<pc, exc, locals, plot_args, obj, ctor_args, first, last, ncalls>>

NoLocals ==
    [strike_price |-> None, data |-> None, current_price |-> None,
     bs_model |-> None, call_price |-> None, put_price |-> None,
     strike_prices |-> None, call_prices |-> None, put_prices |-> None]

NoCalls == [m \in Methods |-> None]

\* ------------------------------------------- a client of BlackScholesModel
SpotInputs == {TicksPerClose * k : k \in (0 - 1)..MaxSpot}
TimeInputs == {0 - T_DAYS, 0, T_DAYS, 2 * T_DAYS}
RateInputs == {0, R_PERCENT, 5 * R_PERCENT}
SigmaInputs == {0 - SIGMA_TENTHS, 0, SIGMA_TENTHS, SIGMA_TENTHS + 1}

ClientInit ==
    /\ pc = "client"
    /\ exc = "none"
    /\ locals = NoLocals
    /\ plot_args = None
    /\ \E S \in SpotInputs, K \in SpotInputs, T \in TimeInputs,
          r \in RateInputs, sigma \in SigmaInputs :
          /\ obj = BlackScholesModel(S, K, T, r, sigma)
          /\ ctor_args = <<S, K, T, r, sigma>>
    /\ first = NoCalls
    /\ last = NoCalls
    /\ ncalls = 0

\* obj.m() for one of the four methods; the client catches what it raises.
ClientCall(m) ==
    /\ pc = "client"
    /\ ncalls < MaxCalls
    /\ LET res == Invoke(m, obj)
           out == [exc |-> res.exc, ret |-> res.ret]
       IN  /\ obj' = res.self
           /\ last' = [last EXCEPT ![m] = Some(out)]
           /\ first' = IF first[m] = None THEN [first EXCEPT ![m] = Some(out)] ELSE first
    /\ ncalls' = ncalls + 1
    /\ UNCHANGED <<pc, exc, locals, plot_args, ctor_args>>

ClientNext == \E m \in Methods : ClientCall(m)

ClientSpec == ClientInit /\ [][ClientNext]_vars

\* ------------------------------------------------------------- DataFrame
\* Series.ewm(span=span).mean() with pandas' defaults (adjust=True,
\* min_periods=0): y[t] is the average of x[t], x[t-1], ..., x[first] with
\* weights 1, (1-alpha), (1-alpha)^2, ..., alpha = 2/(span+1).  With
\* 1-alpha = (span-1)/(span+1) both sums are scaled by (span+1)^(t-1).
RECURSIVE EwmWeights(_, _, _)
EwmWeights(span, t, i) ==
    IF i >= t THEN 0
    ELSE Pow(span - 1, i) * Pow(span + 1, t - 1 - i) + EwmWeights(span, t, i + 1)

RECURSIVE EwmWeighted(_, _, _, _)
EwmWeighted(x, span, t, i) ==
    IF i >= t THEN 0
    ELSE Pow(span - 1, i) * Pow(span + 1, t - 1 - i) * x[t - i]
           + EwmWeighted(x, span, t, i + 1)

\* ewm(span, adjust=False).mean(): y[1] = x[1], y[t] = alpha*x[t] + (1-alpha)*y[t-1]
RECURSIVE EwmRecursive(_, _, _)
EwmRecursive(x, span, t) ==
    IF t = 1 THEN RInt(x[1])
    ELSE RAdd(RMul(<<2, span + 1>>, RInt(x[t])),
              RMul(<<span - 1, span + 1>>, EwmRecursive(x, span, t - 1)))

ewm_mean_unadjusted(x, span) == [t \in 1..Len(x) |-> EwmRecursive(x, span, t)]

ewm_mean(x, span) ==
    [t \in 1..Len(x) |-> Rat(EwmWeighted(x, span, t, 0), EwmWeights(span, t, 0))]

\* (a > b).astype(int), element by element
GreaterAsInt(a, b) ==
    [t \in 1..Len(a) |-> IF RGreater(a[t], b[t]) THEN 1 ELSE 0]

\* range(lo, hi)
Range(lo, hi) == [k \in 1..(hi - lo) |-> lo + k - 1]

\* the sweep with the offsets subtracted: [current_price * (1 - i / 10) ...]
strike_prices_descending(current_price) ==
    LET rng == Range(0 - 3, 4)
    IN  [k \in 1..Len(rng) |-> (current_price * (10 - rng[k])) \div 10]

\* [current_price * (1 + i / 10) for i in range(-3, 4)]
strike_prices(current_price) ==
    LET rng == Range(0 - 3, 4)
    IN  [k \in 1..Len(rng) |-> (current_price * (10 + rng[k])) \div 10]

\* the sweep's calls priced at another volatility than the scalar price
call_prices_other_sigma(current_price, strikes) ==
    [k \in 1..Len(strikes) |->
        call_price(BlackScholesModel(current_price, strikes[k],
                                     T_DAYS, R_PERCENT, SIGMA_TENTHS + 1))]

\* [BlackScholesModel(current_price, K, 30 / 365, 0.01, 0.2).call_price() for K in strikes]
call_prices(current_price, strikes) ==
    [k \in 1..Len(strikes) |->
        call_price(BlackScholesModel(current_price, strikes[k],
                                     T_DAYS, R_PERCENT, SIGMA_TENTHS))]

\* [BlackScholesModel(current_price, K, 30 / 365, 0.01, 0.2).put_price() for K in strikes]
put_prices(current_price, strikes) ==
    [k \in 1..Len(strikes) |->
        put_price(BlackScholesModel(current_price, strikes[k],
                                    T_DAYS, R_PERCENT, SIGMA_TENTHS))]

\* The first exception a list comprehension's elements raise, "none" if none does.
RECURSIVE FirstExc(_, _)
FirstExc(results, k) ==
    IF k > Len(results) THEN "none"
    ELSE IF results[k].exc # "none" THEN results[k].exc
    ELSE FirstExc(results, k + 1)

Values(results) == [k \in 1..Len(results) |-> Val(results[k].ret)]

\* ------------------------------------------------ inputs of run_simulation
RECURSIVE SeqsUpTo(_, _)
SeqsUpTo(S, n) ==
    IF n = 0 THEN {<<>>}
    ELSE LET shorter == SeqsUpTo(S, n - 1)
         IN  shorter \cup {Append(q, e) : q \in shorter, e \in S}

\* yf.download(...)["Close"]: positive closes, possibly none at all
CloseSeries == SeqsUpTo({TicksPerClose * c : c \in 1..MaxClose}, MaxLen)

\* self.strike_price.get(): any number the user typed
StrikeInputs == {0 - TicksPerClose, 0} \cup {5 * k : k \in 1..MaxStrike}

Data == Val(locals.data)

\* ---------------------------------------------------------- run_simulation
Init ==
    /\ pc = "mainloop"
    /\ exc = "none"
    /\ locals = NoLocals
    /\ plot_args = None
    /\ obj = None
    /\ ctor_args = None
    /\ first = NoCalls
    /\ last = NoCalls
    /\ ncalls = 0

Harness == <<obj, ctor_args, first, last, ncalls>>

\* The button's command: lines 86-91, the form's strike and the downloaded frame.
RunSimulation ==
    /\ pc = "mainloop"
    /\ \E k \in StrikeInputs, closes \in CloseSeries :
          locals' = [NoLocals EXCEPT !.strike_price = Some(k),
                                     !.data = Some("Close" :> closes)]
    /\ pc' = "L94"
    /\ exc' = "none"
    /\ plot_args' = None
    /\ UNCHANGED Harness

\* data["9EMA"] = data["Close"].ewm(span=9).mean()
L94 ==
    /\ pc = "L94"
    /\ locals' = [locals EXCEPT !.data =
                     Some(("9EMA" :> ewm_mean(Data["Close"], SHORT_SPAN)) @@ Data)]
    /\ pc' = "L95"
    /\ UNCHANGED <<exc, plot_args, Harness>>

\* data["200EMA"] = data["Close"].ewm(span=200).mean()
L95 ==
    /\ pc = "L95"
    /\ locals' = [locals EXCEPT !.data =
                     Some(("200EMA" :> ewm_mean(Data["Close"], LONG_SPAN)) @@ Data)]
    /\ pc' = "L98"
    /\ UNCHANGED <<exc, plot_args, Harness>>

\* data["Signal"] = (data["9EMA"] > data["20EMA"]).astype(int)
L98 ==
    /\ pc = "L98"
    /\ IF {"9EMA", "20EMA"} \subseteq DOMAIN Data
         THEN /\ locals' = [locals EXCEPT !.data =
                     Some(("Signal" :> GreaterAsInt(Data["9EMA"], Data["20EMA"])) @@ Data)]
              /\ pc' = "L101"
              /\ exc' = exc
         ELSE /\ exc' = "KeyError"
              /\ pc' = "raised"
              /\ locals' = locals
    /\ UNCHANGED <<plot_args, Harness>>

\* The exception leaves run_simulation; Tk reports it and the main loop goes on.
ReportCallbackException ==
    /\ pc = "raised"
    /\ pc' = "mainloop"
    /\ locals' = NoLocals
    /\ UNCHANGED <<exc, plot_args, Harness>>

Next == RunSimulation \/ L94 \/ L95 \/ L98 \/ ReportCallbackException

Spec == Init /\ [][Next]_vars

\* ------------------------------- the pricing block of run_simulation alone
\* Lines 101-118 entered with a downloaded frame and the form's strike.
BlockInit ==
    /\ pc = "L101"
    /\ exc = "none"
    /\ \E k \in StrikeInputs, closes \in CloseSeries :
          locals = [NoLocals EXCEPT !.strike_price = Some(k),
                                    !.data = Some("Close" :> closes)]
    /\ plot_args = None
    /\ obj = None
    /\ ctor_args = None
    /\ first = NoCalls
    /\ last = NoCalls
    /\ ncalls = 0

\* current_price = float(data["Close"].iloc[-1])
L101 ==
    /\ pc = "L101"
    /\ LET closes == Data["Close"]
       IN  IF Len(closes) = 0
             THEN /\ exc' = "IndexError"
                  /\ pc' = "raised"
                  /\ locals' = locals
             ELSE /\ locals' = [locals EXCEPT !.current_price = Some(closes[Len(closes)])]
                  /\ pc' = "L102"
                  /\ exc' = exc
    /\ UNCHANGED <<plot_args, Harness>>

\* line 102 with K=current_price
L102_at_the_money ==
    /\ pc = "L102"
    /\ locals' = [locals EXCEPT !.bs_model =
                     Some(BlackScholesModel(Val(locals.current_price),
                                            Val(locals.current_price),
                                            T_DAYS, R_PERCENT, SIGMA_TENTHS))]
    /\ ctor_args' = <<Val(locals.current_price), Val(locals.current_price),
                      T_DAYS, R_PERCENT, SIGMA_TENTHS>>
    /\ pc' = "L109"
    /\ UNCHANGED <<exc, plot_args, obj, first, last, ncalls>>

\* bs_model = BlackScholesModel(S=current_price, K=strike_price, T=30 / 365, r=0.01, sigma=0.2)
L102 ==
    /\ pc = "L102"
    /\ locals' = [locals EXCEPT !.bs_model =
                     Some(BlackScholesModel(Val(locals.current_price),
                                            Val(locals.strike_price),
                                            T_DAYS, R_PERCENT, SIGMA_TENTHS))]
    /\ ctor_args' = <<Val(locals.current_price), Val(locals.strike_price),
                      T_DAYS, R_PERCENT, SIGMA_TENTHS>>
    /\ pc' = "L109"
    /\ UNCHANGED <<exc, plot_args, obj, first, last, ncalls>>

\* call_price = bs_model.call_price()
L109 ==
    /\ pc = "L109"
    /\ LET res == call_price(Val(locals.bs_model))
       IN  IF res.exc # "none"
             THEN /\ exc' = res.exc
                  /\ pc' = "raised"
                  /\ locals' = [locals EXCEPT !.bs_model = Some(res.self)]
             ELSE /\ locals' = [locals EXCEPT !.bs_model = Some(res.self),
                                              !.call_price = res.ret]
                  /\ pc' = "L110"
                  /\ exc' = exc
    /\ UNCHANGED <<plot_args, Harness>>

\* put_price = bs_model.put_price()
L110 ==
    /\ pc = "L110"
    /\ LET res == put_price(Val(locals.bs_model))
       IN  IF res.exc # "none"
             THEN /\ exc' = res.exc
                  /\ pc' = "raised"
                  /\ locals' = [locals EXCEPT !.bs_model = Some(res.self)]
             ELSE /\ locals' = [locals EXCEPT !.bs_model = Some(res.self),
                                              !.put_price = res.ret]
                  /\ pc' = "L113"
                  /\ exc' = exc
    /\ UNCHANGED <<plot_args, Harness>>

\* strike_prices = [current_price * (1 + i / 10) for i in range(-3, 4)]
L113 ==
    /\ pc = "L113"
    /\ locals' = [locals EXCEPT !.strike_prices =
                     Some(strike_prices(Val(locals.current_price)))]
    /\ pc' = "L114"
    /\ UNCHANGED <<exc, plot_args, Harness>>

\* call_prices = [... .call_price() for K in strike_prices]
L114 ==
    /\ pc = "L114"
    /\ LET res == call_prices(Val(locals.current_price), Val(locals.strike_prices))
       IN  IF FirstExc(res, 1) # "none"
             THEN /\ exc' = FirstExc(res, 1)
                  /\ pc' = "raised"
                  /\ locals' = locals
             ELSE /\ locals' = [locals EXCEPT !.call_prices = Some(Values(res))]
                  /\ pc' = "L115"
                  /\ exc' = exc
    /\ UNCHANGED <<plot_args, Harness>>

\* put_prices = [... .put_price() for K in strike_prices]
L115 ==
    /\ pc = "L115"
    /\ LET res == put_prices(Val(locals.current_price), Val(locals.strike_prices))
       IN  IF FirstExc(res, 1) # "none"
             THEN /\ exc' = FirstExc(res, 1)
                  /\ pc' = "raised"
                  /\ locals' = locals
             ELSE /\ locals' = [locals EXCEPT !.put_prices = Some(Values(res))]
                  /\ pc' = "L118"
                  /\ exc' = exc
    /\ UNCHANGED <<plot_args, Harness>>

\* self.plot_results(data, call_price, put_price, strike_prices, call_prices, put_prices)
L118 ==
    /\ pc = "L118"
    /\ plot_args' = Some(<<Data, Val(locals.call_price), Val(locals.put_price),
                           Val(locals.strike_prices), Val(locals.call_prices),
                           Val(locals.put_prices)>>)
    /\ pc' = "plot_results"
    /\ UNCHANGED <<exc, locals, Harness>>

BlockNext == L101 \/ L102 \/ L109 \/ L110 \/ L113 \/ L114 \/ L115 \/ L118

\* The pricing code on its own: a client of the class, and the pricing block.
PricingInit == ClientInit \/ BlockInit

PricingNext == ClientNext \/ BlockNext

PricingSpec == PricingInit /\ [][PricingNext]_vars

\* ================================================================ claims
Closes == Data["Close"]
LastClose == Closes[Len(Closes)]
Model == Val(locals.bs_model)
FromArgs(a) == BlackScholesModel(a[1], a[2], a[3], a[4], a[5])
InDomain(m) == m.S > 0 /\ m.K > 0 /\ m.T > 0 /\ m.sigma > 0
SweepDone == pc \in {"L118", "plot_results"}
ModelBuilt == pc \in {"L109", "L110", "L113", "L114", "L115", "L118", "plot_results"}
SignalStepOver == pc \in {"L101", "raised"} /\ locals.data # None

\* C1: every run of run_simulation on a non-empty series computes the averages
\* and the signal, then the prices and the sweep, and hands both to
\* plot_results; no run stops before plot_results is called.
C1_RunReachesPlot ==
    (pc = "raised" /\ Len(Closes) > 0) => plot_args # None

\* C2: call_price / put_price on parameters with volatility <= 0, or
\* timeToExpiry <= 0, or spot <= 0, or strike <= 0 ends in a failure and
\* returns no price.
C2_OutOfDomainRejected ==
    (pc = "client" /\ ~InDomain(obj)) =>
        \A m \in {"call_price", "put_price"} :
            last[m] # None =>
                (Val(last[m]).exc # "none" /\ Val(last[m]).ret = None)

\* C3: on an empty price series the run fails with InsufficientData, raised
\* by the signal step before any pricing or rendering.
C3_EmptySeriesInsufficientData ==
    (pc = "raised" /\ Len(Closes) = 0) =>
        (exc = "InsufficientData" /\ locals.current_price = None /\ plot_args = None)

\* C4: for a non-empty series the signal step yields one signal per input
\* timestamp, each 0 or 1, and 1 exactly when the short EMA exceeds the long
\* EMA, both being columns the signal step has computed.
C4_SignalPerTimestamp ==
    (SignalStepOver /\ Len(Closes) > 0) =>
        /\ {"9EMA", "200EMA", "Signal"} \subseteq DOMAIN Data
        /\ Len(Data["Signal"]) = Len(Closes)
        /\ \A t \in 1..Len(Closes) :
              /\ Data["Signal"][t] \in {0, 1}
              /\ (Data["Signal"][t] = 1) <=> RGreater(Data["9EMA"][t], Data["200EMA"][t])

\* C5: for a spot > 0 the sweep's strike list is strictly ascending and has
\* seven entries, one per offset, and the call and put lists have the same
\* length and hold at each index the prices for the strike at that index.
C5_SweepAscendingAligned ==
    (SweepDone /\ Val(locals.current_price) > 0) =>
        LET ks == Val(locals.strike_prices)
            cs == Val(locals.call_prices)
            ps == Val(locals.put_prices)
            cp == Val(locals.current_price)
        IN  /\ Len(ks) = 7
            /\ Len(ks) = Len(Range(0 - 3, 4))
            /\ \A k \in 1..(Len(ks) - 1) : ks[k] < ks[k + 1]
            /\ Len(cs) = Len(ks)
            /\ Len(ps) = Len(ks)
            /\ \A k \in 1..Len(ks) :
                  /\ Some(cs[k]) = call_price(BlackScholesModel(cp, ks[k],
                                        T_DAYS, R_PERCENT, SIGMA_TENTHS)).ret
                  /\ Some(ps[k]) = put_price(BlackScholesModel(cp, ks[k],
                                        T_DAYS, R_PERCENT, SIGMA_TENTHS)).ret

C5_Witness ==
    /\ pc = "plot_results"
    /\ Val(locals.current_price) = 2 * TicksPerClose
    /\ plot_args # None
    /\ Val(plot_args)[4] = <<14, 16, 18, 20, 22, 24, 26>>

\* C6: the i-th sweep strike is spot * (1 + offset_i) for the offsets -0.3,
\* -0.2, -0.1, 0, 0.1, 0.2, 0.3, the middle strike is the spot, and its call
\* and put are priced at that strike with the spot, time to expiry, rate and
\* volatility of the instance that gave the run's scalar price.
C6_SweepStrikesAndParameters ==
    SweepDone =>
        LET ks == Val(locals.strike_prices)
            cs == Val(locals.call_prices)
            ps == Val(locals.put_prices)
            offsets == <<0 - 3, 0 - 2, 0 - 1, 0, 1, 2, 3>>
        IN  /\ Len(ks) = Len(offsets)
            /\ \A k \in 1..Len(offsets) : 10 * ks[k] = Model.S * (10 + offsets[k])
            /\ ks[4] = Model.S
            /\ Model.S = LastClose
            /\ \A k \in 1..Len(offsets) :
                  /\ Some(cs[k]) = call_price(BlackScholesModel(Model.S, ks[k],
                                        Model.T, Model.r, Model.sigma)).ret
                  /\ Some(ps[k]) = put_price(BlackScholesModel(Model.S, ks[k],
                                        Model.T, Model.r, Model.sigma)).ret

C6_Witness ==
    /\ pc = "L118"
    /\ Len(Closes) > 1
    /\ Val(locals.strike_price) # LastClose
    /\ Val(locals.call_prices)[1] # Val(locals.call_prices)[7]

\* C7: put-call parity: for spot, strike, timeToExpiry and volatility all
\* positive, call_price() - put_price() on one instance is
\* spot - strike * exp(-r*T).  Prices are in ticks / Q^2 and exp in thousandths.
C7_PutCallParity ==
    /\ (pc = "client" /\ InDomain(obj)
          /\ last["call_price"] # None /\ last["put_price"] # None) =>
          Val(Val(last["call_price"]).ret) - Val(Val(last["put_price"]).ret)
              = obj.S * Q * Q - obj.K * Discount(obj) * Q
    /\ (pc \in {"L113", "L114", "L115", "L118", "plot_results"} /\ InDomain(Model)) =>
          Val(locals.call_price) - Val(locals.put_price)
              = Model.S * Q * Q - Model.K * Discount(Model) * Q

C7_Witness ==
    /\ pc = "client"
    /\ InDomain(obj)
    /\ obj.S # obj.K
    /\ obj.r > 0
    /\ last["call_price"] # None
    /\ last["put_price"] # None
    /\ Val(Val(last["put_price"]).ret) > 0

RECURSIVE WeightSum(_, _)
WeightSum(span, t) ==
    IF t = 1 THEN RInt(1)
    ELSE RAdd(RInt(1), RMul(<<span - 1, span + 1>>, WeightSum(span, t - 1)))

EmaColumns == <<"9EMA", SHORT_SPAN>> :> 0 @@ <<"200EMA", LONG_SPAN>> :> 0
EmaDone == pc \in {"L98", "raised"} /\ locals.data # None

\* C9 as stated: each moving average is the recursive EMA with
\* alpha = 2/(window+1) seeded by the first price: ema[0] = price[0] and
\* ema[t] = alpha*price[t] + (1-alpha)*ema[t-1], for the short and the long
\* window, the long window being the greater.
C9_RecursiveEma ==
    EmaDone =>
        /\ LONG_SPAN > SHORT_SPAN
        /\ \A c \in DOMAIN EmaColumns :
              LET ema == Data[c[1]]
                  span == c[2]
              IN  /\ Len(ema) = Len(Closes)
                  /\ \A t \in 1..Len(Closes) :
                        ema[t] = IF t = 1 THEN RInt(Closes[1])
                                 ELSE RAdd(RMul(<<2, span + 1>>, RInt(Closes[t])),
                                           RMul(<<span - 1, span + 1>>, ema[t - 1]))

\* C9 amended: each moving average is the weight-normalised EMA with
\* alpha = 2/(window+1) seeded by the first price: ema[0] = price[0] and
\* W[t]*ema[t] = price[t] + (1-alpha)*W[t-1]*ema[t-1] with W[0] = 1 and
\* W[t] = 1 + (1-alpha)*W[t-1], for the windows 9 and 200.
C9_AdjustedEma ==
    EmaDone =>
        /\ LONG_SPAN > SHORT_SPAN
        /\ \A c \in DOMAIN EmaColumns :
              LET ema == Data[c[1]]
                  span == c[2]
              IN  /\ Len(ema) = Len(Closes)
                  /\ \A t \in 1..Len(Closes) :
                        IF t = 1 THEN ema[1] = RInt(Closes[1])
                        ELSE RMul(WeightSum(span, t), ema[t]) =
                               RAdd(RInt(Closes[t]),
                                    RMul(<<span - 1, span + 1>>,
                                         RMul(WeightSum(span, t - 1), ema[t - 1])))

C9_Witness ==
    /\ pc = "L98"
    /\ Len(Closes) = MaxLen
    /\ Closes[1] # Closes[2]
    /\ Data["9EMA"][2] # Data["200EMA"][2]

\* C10: pricing has no side effect: after any calls of d1, d2, call_price and
\* put_price the instance's fields are the constructor's arguments and a
\* repeated call returns what the first call returned; the sweep changes
\* neither the spot nor the instance that gave the scalar price.
C10_PricingIsPure ==
    /\ pc = "client" =>
          /\ obj = FromArgs(ctor_args)
          /\ \A m \in Methods : last[m] = first[m]
    /\ ModelBuilt =>
          /\ Model = FromArgs(ctor_args)
          /\ Val(locals.current_price) = LastClose

C10_Witness ==
    /\ pc = "client"
    /\ InDomain(obj)
    /\ ncalls = MaxCalls
    /\ first["d1"] = None
    /\ first["call_price"] = None
    /\ first["d2"] # None
    /\ first["put_price"] # None
====
